---- MODULE Spec2Model ----
(***************************************************************************)
(* Model of plot.py: the cycloid solver braquistocrona, the straight-line  *)
(* solver linear and the Dash callback update_plot.                        *)
(*                                                                         *)
(* Numbers.  The program computes in IEEE double precision.  The model     *)
(* computes in decimal fixed point: the integer v stands for the real      *)
(* number v / Scale (Scale = 10^6), every operation rounds to the nearest  *)
(* unit, and a value whose magnitude exceeds MaxVal / Scale = 200 is the   *)
(* single non-finite value NaN (it stands for the doubles inf, nan and the *)
(* finite doubles beyond the model's range; it propagates through every    *)
(* operation and compares unequal to everything, as nan does).  Every      *)
(* intermediate integer stays below 2^31.                                  *)
(***************************************************************************)
EXTENDS Integers, Sequences, FiniteSets, TLC

(***************************************************************************)
(* Fixed-point arithmetic (numpy / Python float operations)                *)
(***************************************************************************)
Half == 1000
Scale == Half * Half
MaxVal == 200 * Scale
NaN == MaxVal + 1

Abs(a) == IF a < 0 THEN -a ELSE a
Sgn(a) == IF a < 0 THEN -1 ELSE 1
Fin(v) == IF Abs(v) <= MaxVal THEN v ELSE NaN

Neg(a) == IF a = NaN THEN NaN ELSE -a
AbsV(a) == IF a = NaN THEN NaN ELSE Abs(a)
Add(a, b) == IF a = NaN \/ b = NaN THEN NaN ELSE Fin(a + b)
Sub(a, b) == IF a = NaN \/ b = NaN THEN NaN ELSE Fin(a - b)

\* comparisons of doubles: false as soon as one side is nan
Lt(a, b) == a # NaN /\ b # NaN /\ a < b
Le(a, b) == a # NaN /\ b # NaN /\ a <= b
Eq(a, b) == a # NaN /\ b # NaN /\ a = b

\* a * b of two magnitudes, by halves so that no partial product overflows
MulAbs(a, b) ==
    LET a1 == a \div Half
        a0 == a % Half
        b1 == b \div Half
        b0 == b % Half
    IN  IF a1 # 0 /\ b1 > MaxVal \div a1
        THEN NaN
        ELSE Fin(a1 * b1
                 + ((a1 * b0 + a0 * b1) + (a0 * b0 + 500) \div Half + 500) \div Half)

Mul(a, b) ==
    IF a = NaN \/ b = NaN THEN NaN
    ELSE LET r == MulAbs(Abs(a), Abs(b))
         IN  IF r = NaN THEN NaN ELSE Sgn(a) * Sgn(b) * r

\* the first k decimal digits of r / b (0 <= r < b), the last one rounded
RECURSIVE FracDigits(_, _, _, _)
FracDigits(r, b, k, acc) ==
    IF k = 0
    THEN acc + (IF 2 * r >= b THEN 1 ELSE 0)
    ELSE FracDigits((r * 10) % b, b, k - 1, acc * 10 + (r * 10) \div b)

DivAbs(a, b) ==
    LET q == a \div b
    IN  IF q > MaxVal \div Scale
        THEN NaN
        ELSE Fin(q * Scale + FracDigits(a % b, b, 6, 0))

\* numpy division: a zero divisor gives inf or nan (a warning, no exception)
Div(a, b) ==
    IF a = NaN \/ b = NaN \/ b = 0 THEN NaN
    ELSE LET r == DivAbs(Abs(a), Abs(b))
         IN  IF r = NaN THEN NaN ELSE Sgn(a) * Sgn(b) * r

\* a fixed-point value divided by a positive integer, rounded
IDiv(a, n) == Sgn(a) * ((Abs(a) + n \div 2) \div n)

Pi == 3141593
TwoPi == 6283185
HalfPi == 1570796

\* the argument brought into [-pi, pi]
Reduce(t) == t - Sgn(t) * ((Abs(t) + TwoPi \div 2) \div TwoPi) * TwoPi

RECURSIVE SinSeries(_, _, _, _)
SinSeries(x2, term, k, acc) ==
    IF term = 0 THEN acc
    ELSE LET t == -IDiv(Mul(term, x2), (2 * k) * (2 * k + 1))
         IN  SinSeries(x2, t, k + 1, acc + t)

RECURSIVE CosSeries(_, _, _, _)
CosSeries(x2, term, k, acc) ==
    IF term = 0 THEN acc
    ELSE LET t == -IDiv(Mul(term, x2), (2 * k - 1) * (2 * k))
         IN  CosSeries(x2, t, k + 1, acc + t)

\* np.sin
Sin(t) ==
    IF t = NaN THEN NaN
    ELSE LET r == Reduce(t)
             x == IF r > HalfPi THEN Pi - r
                  ELSE IF r < -HalfPi THEN -Pi - r ELSE r
         IN  SinSeries(Mul(x, x), x, 1, x)

\* np.cos
Cos(t) ==
    IF t = NaN THEN NaN
    ELSE LET r == Reduce(t)
             x == IF r > HalfPi THEN Pi - r
                  ELSE IF r < -HalfPi THEN -Pi - r ELSE r
             c == CosSeries(Mul(x, x), Scale, 1, Scale)
         IN  IF r > HalfPi \/ r < -HalfPi THEN -c ELSE c

RECURSIVE SqrtIter(_, _)
SqrtIter(v, r) ==
    LET n == (r + Div(v, r)) \div 2
    IN  IF n >= r THEN r ELSE SqrtIter(v, n)

\* np.sqrt: nan for a negative argument (a warning, no exception)
Sqrt(v) ==
    IF v = NaN \/ v < 0 THEN NaN
    ELSE IF v = 0 THEN 0
    ELSE SqrtIter(v, (v + Scale) \div 2 + 1)


\* '{:.3f}'.format(T), f'{T:.4f}': the value as a count of 10^-d units,
\* rounded half to even; "nan" for a non-finite value
RECURSIVE Pow10(_)
Pow10(d) == IF d = 0 THEN 1 ELSE 10 * Pow10(d - 1)

Format(v, d) ==
    IF v = NaN THEN NaN
    ELSE LET u == Scale \div Pow10(d)
             q == Abs(v) \div u
             r == Abs(v) % u
             up == 2 * r > u \/ (2 * r = u /\ q % 2 = 1)
         IN  Sgn(v) * (q + (IF up THEN 1 ELSE 0))

\* linspace without its right end (endpoint=False)
Linspace_NoEndpoint(stop, num) ==
    LET step == IF stop = NaN THEN NaN ELSE IDiv(stop, num)
    IN  [i \in 1..num |-> IF step = NaN THEN NaN ELSE Fin((i - 1) * step)]

\* np.linspace(0, stop, num): num samples, both ends included, the last one
\* set to stop itself
Linspace(stop, num) ==
    IF num = 1 THEN <<0>>
    ELSE LET step == IF stop = NaN THEN NaN ELSE IDiv(stop, num - 1)
         IN  [i \in 1..num |->
                IF i = num THEN stop
                ELSE IF step = NaN THEN NaN ELSE Fin((i - 1) * step)]

(***************************************************************************)
(* Program constants                                                       *)
(***************************************************************************)
gValue == 9810000
NValue == 100
DefaultN == 100

\* scipy.optimize.newton(f, np.pi/2): no fprime, so the secant method with
\* the defaults maxiter = 50, disp = True and tol = 1.48e-8.  The default tol
\* is the square root of the double precision epsilon; the model, whose
\* arithmetic resolves 10^-6, takes the square root of its own resolution.
MaxIter == 50
Tol == Half
SecantEps == 100
X0 == HalfPi

(***************************************************************************)
(* Bounds of the model                                                     *)
(***************************************************************************)
MaxX == 3
MaxY == 4
MaxN == 3
MaxCalls == 3
MaxThetaK == 8
MaxRK == 6

XValues == {k * Scale : k \in -1..MaxX}
YValues == {k * Scale : k \in 0..MaxY} \cup {65 * (Scale \div 100)}
NValues == 2..MaxN
\* the arguments of the calls that are logged
RepXValues == {0, Scale}
RepYValues == {Scale}
\* the locals the travel time is computed from
ThetaValues == {Pi - 1, Pi, Pi + 1} \cup {k * (Scale \div 2) : k \in 1..MaxThetaK}
RValues == {k * (Scale \div 4) : k \in 1..MaxRK}

(***************************************************************************)
(* State                                                                   *)
(***************************************************************************)
VARIABLES
    g, N,                       \* the module's globals
    pc,                         \* the statement about to run
    caller, fn,                 \* who called the running solver, and which
    final_x, final_y, Narg,     \* the solver's arguments (Narg: parameter N)
    p0, p1, q0, q1, itr,        \* newton's locals
    final_theta, R, m,          \* the solver's locals
    theta, x, y, T,
    outcome,                    \* how the last solver call ended
    did,                        \* computation steps the call has attempted
    stdout,                     \* the last line printed
    up,                         \* update_plot's locals
    up_calls,                   \* the solver calls the current event has made
    up_outcome, figure,         \* how the event ended, the figure returned
    tracking, hist              \* log of finished solver calls, when tracking

globals == <<g, N>>
frame == <<caller, fn, final_x, final_y, Narg>>
newt == <<p0, p1, q0, q1, itr>>
locals == <<final_theta, R, m, theta, x, y, T>>
upv == <<up, up_calls, up_outcome, figure>>
vars == <<g, N, pc, caller, fn, final_x, final_y, Narg, p0, p1, q0, q1, itr,
          final_theta, R, m, theta, x, y, T, outcome, did, stdout,
          up, up_calls, up_outcome, figure, tracking, hist>>

NoUp == [final_x |-> 0, final_y |-> 0,
         x_cycloid |-> <<>>, y_cycloid |-> <<>>, T_cycloid |-> 0,
         x_line |-> <<>>, y_line |-> <<>>, T_line |-> 0]

InitCommon ==
    /\ g = gValue /\ N = NValue
    /\ caller = "none" /\ fn = "none"
    /\ final_x = 0 /\ final_y = 0 /\ Narg = 0
    /\ p0 = 0 /\ p1 = 0 /\ q0 = 0 /\ q1 = 0 /\ itr = 0
    /\ final_theta = 0 /\ R = 0 /\ m = 0
    /\ theta = <<>> /\ x = <<>> /\ y = <<>> /\ T = 0
    /\ outcome = "none" /\ did = {} /\ stdout = <<>>
    /\ up = NoUp /\ up_calls = <<>> /\ up_outcome = "none" /\ figure = <<>>
    /\ hist = <<>>

Init == InitCommon /\ pc = "idle" /\ tracking = FALSE

InitRepeat == InitCommon /\ pc = "idle" /\ tracking = TRUE

\* braquistocrona about to compute the travel time, whatever the root finder
\* and the radius gave
InitTime ==
    /\ g = gValue /\ N = NValue
    /\ caller = "direct" /\ fn = "braquistocrona"
    /\ final_x = Scale /\ final_y = Scale /\ Narg = 2
    /\ p0 = 0 /\ p1 = 0 /\ q0 = 0 /\ q1 = 0 /\ itr = 0
    /\ final_theta \in ThetaValues /\ R \in RValues /\ m = 0
    /\ theta = <<>> /\ x = <<>> /\ y = <<>> /\ T = 0
    /\ outcome = "none" /\ did = {} /\ stdout = <<>>
    /\ up = NoUp /\ up_calls = <<>> /\ up_outcome = "none" /\ figure = <<>>
    /\ hist = <<>>
    /\ pc = "time" /\ tracking = FALSE

\* the arguments the environment passes
ArgX == IF tracking THEN RepXValues ELSE XValues
ArgY == IF tracking THEN RepYValues ELSE YValues
MayCall == pc = "idle" /\ (tracking => Len(hist) < MaxCalls)

\* a fresh frame for a solver call
Enter(who, f, fx, fy, k) ==
    /\ caller' = who /\ fn' = f
    /\ final_x' = fx /\ final_y' = fy /\ Narg' = k
    /\ p0' = 0 /\ p1' = 0 /\ q0' = 0 /\ q1' = 0 /\ itr' = 0
    /\ final_theta' = 0 /\ R' = 0 /\ m' = 0
    /\ theta' = <<>> /\ x' = <<>> /\ y' = <<>> /\ T' = 0
    /\ outcome' = "none" /\ did' = {}
    /\ pc' = IF f = "braquistocrona" THEN "newton_start" ELSE "slope"

\* the finished call, as the log keeps it
Finished(o) ==
    [fn |-> fn, final_x |-> final_x, final_y |-> final_y, N |-> Narg,
     outcome |-> o, x |-> x, y |-> y, T |-> T,
     final_theta |-> final_theta, R |-> R, m |-> m]

Log(o) == hist' = IF tracking THEN Append(hist, Finished(o)) ELSE hist

(***************************************************************************)
(* Calls from outside update_plot                                          *)
(***************************************************************************)
\* what the model keeps of the previous call or event is dropped when the
\* next one starts: the lines it printed, update_plot's locals and figure
Fresh ==
    /\ stdout' = <<>>
    /\ up' = NoUp /\ up_calls' = <<>> /\ up_outcome' = "none" /\ figure' = <<>>

CallBraquistocrona ==
    /\ MayCall
    /\ \E fx \in ArgX, fy \in ArgY, k \in NValues :
          Enter("direct", "braquistocrona", fx, fy, k)
    /\ Fresh
    /\ UNCHANGED <<globals, tracking, hist>>

CallLinear ==
    /\ MayCall
    /\ \E fx \in ArgX, fy \in ArgY, k \in NValues :
          Enter("direct", "linear", fx, fy, k)
    /\ Fresh
    /\ UNCHANGED <<globals, tracking, hist>>

\* an exception leaves the solver
Raise(e) == pc' = "raise" /\ outcome' = e

(***************************************************************************)
(* braquistocrona                                                          *)
(***************************************************************************)
\* f(theta), once final_y / final_x has not raised
F(th, fx, fy) ==
    Sub(Div(fy, fx), Div(Sub(Scale, Cos(th)), Sub(th, Sin(th))))

\* newton, up to its loop: p0, p1 and the first two evaluations of f
NewtonStart ==
    /\ pc = "newton_start"
    /\ did' = did \cup {"slope_division"}
    /\ IF final_x = 0
       THEN /\ Raise("ZeroDivisionError")
            /\ UNCHANGED newt
       ELSE LET a0 == X0
                a1 == Add(Mul(a0, Scale + SecantEps), SecantEps)
                f0 == F(a0, final_x, final_y)
                f1 == F(a1, final_x, final_y)
                swap == Lt(AbsV(f1), AbsV(f0))
            IN  /\ p0' = (IF swap THEN a1 ELSE a0)
                /\ p1' = (IF swap THEN a0 ELSE a1)
                /\ q0' = (IF swap THEN f1 ELSE f0)
                /\ q1' = (IF swap THEN f0 ELSE f1)
                /\ itr' = 0
                /\ pc' = "newton_loop"
                /\ UNCHANGED outcome
    /\ UNCHANGED <<globals, frame, locals, stdout, upv, tracking, hist>>

\* the secant step
SecantNext(a0, a1, f0, f1) ==
    IF Lt(AbsV(f0), AbsV(f1))
    THEN LET r == Div(f0, f1)
         IN  Div(Add(Mul(Neg(r), a1), a0), Sub(Scale, r))
    ELSE LET r == Div(f1, f0)
         IN  Div(Add(Mul(Neg(r), a0), a1), Sub(Scale, r))

\* np.isclose(p, p1, rtol=0, atol=tol)
IsClose(a, b) == Le(AbsV(Sub(a, b)), Tol)

\* one pass of newton's loop: equal function values end it (an error unless
\* the two points are equal too), a step within tol ends it with the root,
\* anything else moves on to the next point
NewtonPass ==
    /\ did' = did \cup {"root_iteration"}
    /\ IF Eq(q1, q0)
       THEN IF p1 # p0
            THEN /\ Raise("RuntimeError")
                 /\ UNCHANGED <<newt, final_theta>>
            ELSE /\ final_theta' = IDiv(Add(p1, p0), 2)
                 /\ pc' = "radius"
                 /\ UNCHANGED <<newt, outcome>>
       ELSE LET p == SecantNext(p0, p1, q0, q1)
            IN  IF IsClose(p, p1)
                THEN /\ final_theta' = p
                     /\ pc' = "radius"
                     /\ UNCHANGED <<newt, outcome>>
                ELSE /\ p0' = p1 /\ q0' = q1
                     /\ p1' = p
                     /\ q1' = F(p, final_x, final_y)
                     /\ itr' = itr + 1
                     /\ pc' = "newton_loop"
                     /\ UNCHANGED <<final_theta, outcome>>

\* newton with disp=False: after maxiter passes the last point is returned
NewtonLoop_ReturnsLast ==
    /\ pc = "newton_loop"
    /\ IF itr >= MaxIter
       THEN /\ final_theta' = p1
            /\ pc' = "radius"
            /\ UNCHANGED <<newt, outcome, did>>
       ELSE NewtonPass
    /\ UNCHANGED <<globals, frame, R, m, theta, x, y, T, stdout, upv,
                   tracking, hist>>

\* newton's loop: at most maxiter passes, then (disp=True) RuntimeError
NewtonLoop ==
    /\ pc = "newton_loop"
    /\ IF itr >= MaxIter
       THEN /\ Raise("RuntimeError")
            /\ UNCHANGED <<newt, final_theta, did>>
       ELSE NewtonPass
    /\ UNCHANGED <<globals, frame, R, m, theta, x, y, T, stdout, upv,
                   tracking, hist>>

\* the radius taken at the last of Narg samples that stop short of final_theta
Radius_FromLastSample(th, fy) ==
    Div(fy, Sub(Scale, Cos(IDiv(th, Narg) * (Narg - 1))))

\* R = final_y / (1 - np.cos(final_theta))
Radius(th, fy) == Div(fy, Sub(Scale, Cos(th)))

BraqRadius ==
    /\ pc = "radius"
    /\ R' = Radius(final_theta, final_y)
    /\ did' = did \cup {"radius"}
    /\ pc' = "sample"
    /\ UNCHANGED <<globals, frame, newt, final_theta, m, theta, x, y, T,
                   outcome, stdout, upv, tracking, hist>>

CycloidX(r, ths) == [i \in DOMAIN ths |-> Mul(r, Sub(ths[i], Sin(ths[i])))]
CycloidY(r, ths) == [i \in DOMAIN ths |-> Mul(r, Sub(Scale, Cos(ths[i])))]

BraqSample ==
    /\ pc = "sample"
    /\ theta' = Linspace(final_theta, Narg)
    /\ x' = CycloidX(R, theta')
    /\ y' = CycloidY(R, theta')
    /\ did' = did \cup {"sampling"}
    /\ pc' = "time"
    /\ UNCHANGED <<globals, frame, newt, final_theta, R, m, T,
                   outcome, stdout, upv, tracking, hist>>

\* the square root forgotten
CycloidTime_NoSqrt(th, r, gv) == Mul(th, Div(r, gv))

\* the cusp treated as undefined
CycloidTime_CuspUndefined(th, r, gv) ==
    IF th = Pi THEN NaN ELSE Mul(th, Sqrt(Div(r, gv)))

\* T = final_theta * np.sqrt(R / g), in both branches of the test on np.pi
CycloidTime(th, r, gv) ==
    IF th = Pi
    THEN Mul(Pi, Sqrt(Div(r, gv)))
    ELSE Mul(th, Sqrt(Div(r, gv)))

\* the travel time, with the global g rebound on the way
BraqTime_RebindsG ==
    /\ pc = "time"
    /\ T' = CycloidTime(final_theta, R, g)
    /\ g' = Div(R, g)
    /\ did' = did \cup {"time"}
    /\ pc' = "return"
    /\ UNCHANGED <<N, frame, newt, final_theta, R, m, theta, x, y,
                   outcome, stdout, upv, tracking, hist>>

BraqTime ==
    /\ pc = "time"
    /\ T' = CycloidTime(final_theta, R, g)
    /\ did' = did \cup {"time"}
    /\ pc' = "return"
    /\ UNCHANGED <<globals, frame, newt, final_theta, R, m, theta, x, y,
                   outcome, stdout, upv, tracking, hist>>

(***************************************************************************)
(* linear                                                                  *)
(***************************************************************************)
\* m = final_y / final_x: Python's division, which raises on a zero divisor
LinSlope ==
    /\ pc = "slope"
    /\ did' = did \cup {"slope_division"}
    /\ IF final_x = 0
       THEN /\ Raise("ZeroDivisionError")
            /\ UNCHANGED m
       ELSE /\ m' = Div(final_y, final_x)
            /\ pc' = "lin_sample"
            /\ UNCHANGED outcome
    /\ UNCHANGED <<globals, frame, newt, final_theta, R, theta, x, y, T,
                   stdout, upv, tracking, hist>>

LineY(mv, xs) == [i \in DOMAIN xs |-> Mul(mv, xs[i])]

LinSample ==
    /\ pc = "lin_sample"
    /\ x' = Linspace(final_x, Narg)
    /\ y' = LineY(m, x')
    /\ did' = did \cup {"sampling"}
    /\ pc' = "lin_time"
    /\ UNCHANGED <<globals, frame, newt, final_theta, R, m, theta, T,
                   outcome, stdout, upv, tracking, hist>>

\* the factor 2 forgotten
LinearTime_NoFactor2(mv, fx, gv) ==
    Sqrt(Mul(Div(Div(Add(Scale, Mul(mv, mv)), gv), mv), fx))

\* np.sqrt(2*(1+m**2)/g/m * final_x), the divisors g and m being nonzero
LinearTime(mv, fx, gv) ==
    Sqrt(Mul(Div(Div(Mul(2 * Scale, Add(Scale, Mul(mv, mv))), gv), mv), fx))

\* the argument of np.sqrt is computed on Python floats: dividing by m = 0
\* raises ZeroDivisionError
LinTime ==
    /\ pc = "lin_time"
    /\ did' = did \cup {"time"}
    /\ IF g = 0 \/ m = 0
       THEN /\ Raise("ZeroDivisionError")
            /\ UNCHANGED T
       ELSE /\ T' = LinearTime(m, final_x, g)
            /\ pc' = "lin_print"
            /\ UNCHANGED outcome
    /\ UNCHANGED <<globals, frame, newt, final_theta, R, m, theta, x, y,
                   stdout, upv, tracking, hist>>

\* print('T(linear) = {:.3f}'.format(T))
LinPrint ==
    /\ pc = "lin_print"
    /\ stdout' = <<"T(linear) = ", Format(T, 3)>>
    /\ pc' = "return"
    /\ UNCHANGED <<globals, frame, newt, locals, outcome, did, upv,
                   tracking, hist>>

(***************************************************************************)
(* update_plot                                                             *)
(***************************************************************************)
Call(f, fx, fy, k) == [fn |-> f, final_x |-> fx, final_y |-> fy, N |-> k]

\* the arguments update_plot passes to braquistocrona and to linear
CycloidArgs(u) == Call("braquistocrona", u.final_x, u.final_y, DefaultN)
LinearArgs(u) == Call("linear", u.final_x, u.final_y, DefaultN)

\* the callback starts: braquistocrona(final_x, final_y)
UpdatePlot ==
    /\ MayCall
    /\ \E fx \in ArgX, fy \in ArgY :
          /\ up' = [NoUp EXCEPT !.final_x = fx, !.final_y = fy]
          /\ up_calls' = <<>>
          /\ LET a == CycloidArgs(up')
             IN  Enter("update_plot", a.fn, a.final_x, a.final_y, a.N)
    /\ up_outcome' = "none"
    /\ figure' = <<>>
    /\ stdout' = <<>>
    /\ UNCHANGED <<globals, tracking, hist>>

\* return x, y, T: to the environment, or to update_plot, which keeps the
\* result and goes on: to the call of linear, or to the figure
Return ==
    /\ pc = "return"
    /\ Log("returned")
    /\ IF caller = "direct"
       THEN /\ pc' = "idle"
            /\ outcome' = "returned"
            /\ UNCHANGED <<frame, newt, locals, did, upv>>
       ELSE IF fn = "braquistocrona"
       THEN LET a == LinearArgs(up)
            IN  /\ up' = [up EXCEPT !.x_cycloid = x, !.y_cycloid = y,
                                    !.T_cycloid = T]
                /\ up_calls' = Append(up_calls, Finished("returned"))
                /\ Enter("update_plot", a.fn, a.final_x, a.final_y, a.N)
                /\ UNCHANGED <<up_outcome, figure>>
       ELSE /\ up' = [up EXCEPT !.x_line = x, !.y_line = y, !.T_line = T]
            /\ up_calls' = Append(up_calls, Finished("returned"))
            /\ pc' = "figure"
            /\ outcome' = "returned"
            /\ UNCHANGED <<frame, newt, locals, did, up_outcome, figure>>
    /\ UNCHANGED <<globals, stdout, tracking>>

\* an exception reaches the caller; update_plot does not catch it, so the
\* event ends with it and returns no figure
Propagate ==
    /\ pc = "raise"
    /\ Log(outcome)
    /\ pc' = "idle"
    /\ IF caller = "update_plot"
       THEN /\ up_outcome' = outcome /\ figure' = <<>>
            /\ up_calls' = Append(up_calls, Finished(outcome))
       ELSE UNCHANGED <<up_calls, up_outcome, figure>>
    /\ UNCHANGED <<globals, frame, newt, locals, outcome, did, stdout,
                   up, tracking>>

Scatter(xs, ys, name) == [x |-> xs, y |-> ys, mode |-> "lines", name |-> name]

\* the time with three decimals, as in linear's print
Annotation_ThreeDecimals(label, Tv, ypos) ==
    [text |-> <<label, Format(Tv, 3), "s">>,
     x |-> Scale \div 2, y |-> ypos, xref |-> "paper", yref |-> "paper",
     showarrow |-> FALSE, font |-> [size |-> 18], align |-> "center"]

\* go.layout.Annotation(text=f'...: {T:.4f}s', ...)
Annotation(label, Tv, ypos) ==
    [text |-> <<label, Format(Tv, 4), "s">>,
     x |-> Scale \div 2, y |-> ypos, xref |-> "paper", yref |-> "paper",
     showarrow |-> FALSE, font |-> [size |-> 18], align |-> "center"]

Figure(u) ==
    [data |-> <<Scatter(u.x_cycloid, u.y_cycloid, "Braquistocrona"),
                Scatter(u.x_line, u.y_line, "Linear")>>,
     layout |->
        [yaxis |-> [autorange |-> "reversed"],
         annotations |->
            <<Annotation("Tempo de Viagem (Braquistocrona): ", u.T_cycloid,
                         9 * (Scale \div 10)),
              Annotation("Tempo de Viagem (Linear): ", u.T_line,
                         8 * (Scale \div 10))>>]]

\* the traces, the annotations and the figure update_plot returns
UpdatePlotFigure ==
    /\ pc = "figure"
    /\ figure' = <<Figure(up)>>
    /\ up_outcome' = "returned"
    /\ pc' = "idle"
    /\ UNCHANGED <<globals, frame, newt, locals, outcome, did, stdout,
                   up, up_calls, tracking, hist>>

(***************************************************************************)
(* Specifications                                                          *)
(***************************************************************************)
Next ==
    \/ CallBraquistocrona
    \/ CallLinear
    \/ UpdatePlot
    \/ NewtonStart
    \/ NewtonLoop
    \/ BraqRadius
    \/ BraqSample
    \/ BraqTime
    \/ LinSlope
    \/ LinSample
    \/ LinTime
    \/ LinPrint
    \/ Return
    \/ Propagate
    \/ UpdatePlotFigure

\* calls with arguments from the model's bounds, one after another
Spec == Init /\ [][Next]_vars

\* the same, with every finished call logged
SpecRepeat == InitRepeat /\ [][Next]_vars

\* the travel time of the cycloid as a function of final_theta and R
SpecTime == InitTime /\ [][BraqTime]_vars

(***************************************************************************)
(* Claims                                                                  *)
(***************************************************************************)
Running == fn # "none"
Ended == outcome # "none"

\* a and b equal up to a relative 10^-4
RelDen == 10 * Half
Close(a, b) == a # NaN /\ Abs(a - b) <= Abs(b) \div RelDen

\* a and b equal to three decimals
ApproxTol == Half \div 2
Approx(a, b) == a # NaN /\ Abs(a - b) <= ApproxTol

\* C1: a solver called with x2 <= 0 attempts no computation step (no slope
\* division, no root-finder pass, no radius, sampling or time) and ends in
\* an InvalidInput error.
C1_InvalidInputBeforeComputation ==
    (Running /\ final_x <= 0) =>
        /\ did = {}
        /\ Ended => outcome = "InvalidInput"

\* C2: a solver called with x2 > 0 and y2 = 0 never ends in a division by
\* zero and never returns a NaN radius or time: it returns a defined result or
\* ends in a DegenerateCase error.
C2_ZeroDropGuarded ==
    (Running /\ final_x > 0 /\ final_y = 0 /\ Ended) =>
        \/ outcome = "DegenerateCase"
        \/ outcome = "returned" /\ R # NaN /\ T # NaN

\* C3: for x2 > 0, y2 > 0 and N >= 2 the path either solver returns starts at
\* (0, 0) and ends at (x2, y2), within a relative 10^-4.
C3_Endpoints ==
    (pc = "return" /\ final_x > 0 /\ final_y > 0 /\ Narg >= 2) =>
        /\ Len(x) = Narg /\ Len(y) = Narg
        /\ x[1] = 0 /\ y[1] = 0
        /\ Close(x[Narg], final_x)
        /\ Close(y[Narg], final_y)

C3_Witness ==
    /\ pc = "return" /\ fn = "braquistocrona"
    /\ final_x = 2 * Scale /\ final_y = 3 * Scale /\ Narg = 3
    /\ x[3] # x[2] /\ x[2] # 0

\* C4: for x2 > 0 and y2 > 0 the travel time the cycloid solver returns is
\* below the travel time the linear solver returns for the same (x2, y2).
C4_CycloidFaster ==
    (pc = "figure" /\ up.final_x > 0 /\ up.final_y > 0) =>
        Lt(up.T_cycloid, up.T_line)

C4_Witness ==
    /\ pc = "figure"
    /\ up.final_x = Scale /\ up.final_y = 65 * (Scale \div 100)
    /\ up.T_cycloid > 0

SameCall(a, b) ==
    /\ a.fn = b.fn /\ a.final_x = b.final_x /\ a.final_y = b.final_y
    /\ a.N = b.N

\* C5: two calls of the same solver with the same (x2, y2, N) end the same
\* way with the same (xs, ys, T), whatever was called before or in between,
\* and no call changes g or N.
C5_Deterministic ==
    /\ g = gValue /\ N = NValue
    /\ \A i, j \in DOMAIN hist : SameCall(hist[i], hist[j]) => hist[i] = hist[j]

C5_Witness ==
    /\ Len(hist) >= 3
    /\ SameCall(hist[1], hist[3]) /\ ~SameCall(hist[1], hist[2])
    /\ hist[3].outcome = "returned" /\ hist[2].outcome = "returned"

\* C6: for the same (x2, y2), calls with different N give the same theta2, R,
\* slope and T and end the same way; N is the number of points returned.
C6_DensityOnly ==
    /\ \A i, j \in DOMAIN hist :
          (/\ hist[i].fn = hist[j].fn
           /\ hist[i].final_x = hist[j].final_x
           /\ hist[i].final_y = hist[j].final_y) =>
              /\ hist[i].outcome = hist[j].outcome
              /\ hist[i].final_theta = hist[j].final_theta
              /\ hist[i].R = hist[j].R
              /\ hist[i].m = hist[j].m
              /\ hist[i].T = hist[j].T
    /\ \A i \in DOMAIN hist :
          hist[i].outcome = "returned" =>
              Len(hist[i].x) = hist[i].N /\ Len(hist[i].y) = hist[i].N

C6_Witness ==
    \E i, j \in DOMAIN hist :
        /\ hist[i].fn = "braquistocrona" /\ hist[j].fn = "braquistocrona"
        /\ hist[i].final_x = hist[j].final_x
        /\ hist[i].outcome = "returned" /\ hist[j].outcome = "returned"
        /\ hist[i].N = 2 /\ hist[j].N = DefaultN
        /\ Len(hist[i].x) < Len(hist[j].x)

CycloidScenario ==
    /\ Approx(final_theta, 2412000)
    /\ Approx(R, 572900)
    /\ Approx(T, 583000)

AtScenario(f) ==
    pc = "return" /\ fn = f /\ final_x = Scale /\ final_y = Scale

\* C7 as stated: for x2 = 1, y2 = 1 the cycloid solver finds theta2 = 2.412
\* and R = 0.5729 and returns T = 0.5830, and the linear solver (m = 1)
\* returns T = 0.6376, each to three decimals.
C7_ScenarioAsStated ==
    /\ AtScenario("braquistocrona") => CycloidScenario
    /\ AtScenario("linear") => m = Scale /\ Approx(T, 637600)

\* C7, amended: the same with the linear solver returning
\* T = sqrt(4 / 9.81) = 0.6386.
C7_Scenario ==
    /\ AtScenario("braquistocrona") => CycloidScenario
    /\ AtScenario("linear") => m = Scale /\ Approx(T, 638600)

C7_Witness == AtScenario("linear") /\ Narg = 2 /\ T > 0 /\ caller = "direct"

\* the root the solver goes on with is one newton returned: the last step was
\* within tol, or the last two points were one point
Converged == IsClose(final_theta, p1) \/ (Eq(q1, q0) /\ p1 = p0)

C9_FigureFromBothSolvers ==
    /\ figure # <<>> =>
          /\ up_outcome = "returned"
          /\ Len(up_calls) = 2
          /\ LET c == up_calls[1]
                 l == up_calls[2]
                 fig == figure[1]
             IN  /\ c.fn = "braquistocrona" /\ l.fn = "linear"
                 /\ c.final_x = up.final_x /\ c.final_y = up.final_y
                 /\ l.final_x = up.final_x /\ l.final_y = up.final_y
                 /\ c.N = DefaultN /\ l.N = DefaultN
                 /\ c.outcome = "returned" /\ l.outcome = "returned"
                 /\ Len(fig.data) = 2
                 /\ fig.data[1].x = c.x /\ fig.data[1].y = c.y
                 /\ fig.data[2].x = l.x /\ fig.data[2].y = l.y
                 /\ fig.layout.yaxis.autorange = "reversed"
                 /\ Len(fig.layout.annotations) = 2
                 /\ fig.layout.annotations[1].text[2] = Format(c.T, 4)
                 /\ fig.layout.annotations[2].text[2] = Format(l.T, 4)
    /\ (\E i \in DOMAIN up_calls : up_calls[i].outcome # "returned")
          => figure = <<>> /\ pc # "figure"
    /\ up_outcome = "returned" => figure # <<>>

C9_Witness ==
    /\ figure # <<>>
    /\ up.final_x = 2 * Scale /\ up.final_y = Scale
    /\ figure[1].layout.annotations[1].text[2] = 8056

\* C10: the travel time of the cycloid is theta2 * sqrt(R / g) for every
\* theta2, theta2 = pi included.
C10_TimeFormula ==
    (pc = "return" /\ fn = "braquistocrona") =>
        T = Mul(final_theta, Sqrt(Div(R, g)))

C10_Witness ==
    /\ pc = "return" /\ fn = "braquistocrona"
    /\ final_theta = Pi /\ T # NaN /\ T > 0
====
